---------------------------- MODULE Spec2Model ----------------------------
(***************************************************************************)
(* A model of bolcan.pipeline_eng.pipe_network (src/bolcan/pipeline_eng.py) *)
(* : the Hardy-Cross loop-flow solver.  One call of pipe_network is the    *)
(* state machine: the equation check, the per-loop validation, and then    *)
(* the iteration (head losses and correction per loop, convergence check,  *)
(* per-loop flow update, iteration budget) and the formatting of the       *)
(* result.                                                                 *)
(*                                                                         *)
(* Python floats are modelled as decimal fixed-point numbers: an integer v *)
(* stands for v / Scale.  Sums and differences are exact, products,        *)
(* quotients and powers are cut to the precision 1/Scale.  NaN is a value  *)
(* of its own, and it propagates as in IEEE arithmetic.                    *)
(***************************************************************************)
EXTENDS Integers, Sequences, FiniteSets, TLC

\* ------------------------------------------------------------ numbers

\* Base * Base = Scale.
Scale == 10 ^ 6
Base == 10 ^ 3
NaN == (2 ^ 30) + ((2 ^ 30) - 1)

IsNaN(x) == x = NaN

\* The decimal literal m * 10^(-k), for 10^k up to Scale.
Lit(m, k) == m * (Scale \div (10 ^ k))

Abs(x) == IF x < 0 THEN -x ELSE x
Sgn(x) == IF x > 0 THEN 1 ELSE IF x < 0 THEN -1 ELSE 0

Add(x, y) == IF IsNaN(x) \/ IsNaN(y) THEN NaN ELSE x + y
Sub(x, y) == IF IsNaN(x) \/ IsNaN(y) THEN NaN ELSE x - y
Neg(x) == IF IsNaN(x) THEN NaN ELSE -x
FAbs(x) == IF IsNaN(x) THEN NaN ELSE Abs(x)
\* x < y and x > y of floats: False when either is NaN.
Less(x, y) == ~IsNaN(x) /\ ~IsNaN(y) /\ x < y
Greater(x, y) == ~IsNaN(x) /\ ~IsNaN(y) /\ x > y

\* x * y / Scale of two magnitudes, without leaving 32 bits.
MulMag(x, y) ==
    LET a == x \div Base
        b == x % Base
        c == y \div Base
        d == y % Base
    IN  a * c + ((a * d + b * c + ((b * d) \div Base)) \div Base)

Mul(x, y) ==
    IF IsNaN(x) \/ IsNaN(y) THEN NaN
    ELSE Sgn(x) * Sgn(y) * MulMag(Abs(x), Abs(y))

\* The decimal digits of r / y worth less than u / Scale, for 0 <= r < y.
RECURSIVE FracDigits(_, _, _)
FracDigits(r, y, u) ==
    IF u = 1 THEN 0
    ELSE ((r * 10) \div y) * (u \div 10) + FracDigits((r * 10) % y, y, u \div 10)

\* x * Scale / y of two magnitudes, by long division.
DivMag(x, y) == (x \div y) * Scale + FracDigits(x % y, y, Scale)

\* x / y for y # 0.
Div(x, y) ==
    IF IsNaN(x) \/ IsNaN(y) THEN NaN
    ELSE Sgn(x) * Sgn(y) * DivMag(Abs(x), Abs(y))

\* x ** k for a natural number k.
RECURSIVE PowInt(_, _)
PowInt(x, k) == IF k = 0 THEN Scale ELSE Mul(x, PowInt(x, k - 1))

\* 2 ** (1 / 2**j), j = 1..LogBits.
RootTwo ==
    << 1414214, 1189207, 1090508, 1044274, 1021897, 1010889, 1005430,
       1002711, 1001355, 1000677, 1000339, 1000169, 1000085, 1000042,
       1000021, 1000011, 1000005, 1000003, 1000001, 1000001 >>

LogBits == Len(RootTwo)

\* log2 of a magnitude m in [Scale, 2*Scale): its fractional bits j..LogBits.
RECURSIVE Log2Frac(_, _)
Log2Frac(m, j) ==
    IF j > LogBits THEN 0
    ELSE LET sq == MulMag(m, m)
         IN  IF sq >= 2 * Scale
             THEN (Scale \div (2 ^ j)) + Log2Frac(sq \div 2, j + 1)
             ELSE Log2Frac(sq, j + 1)

\* log2(x) for x > 0: bring x into [Scale, 2*Scale), counting the shifts.
RECURSIVE Log2(_)
Log2(x) ==
    IF x >= 2 * Scale THEN Scale + Log2(x \div 2)
    ELSE IF x < Scale THEN Log2(2 * x) - Scale
    ELSE Log2Frac(x, 1)

\* 2 ** f for 0 <= f < Scale: the product of the roots its bits j.. select.
RECURSIVE Exp2Frac(_, _)
Exp2Frac(f, j) ==
    IF j > LogBits \/ f = 0 THEN Scale
    ELSE IF 2 * f >= Scale
         THEN MulMag(RootTwo[j], Exp2Frac(2 * f - Scale, j + 1))
         ELSE Exp2Frac(2 * f, j + 1)

RECURSIVE Exp2(_)
Exp2(y) ==
    IF y >= Scale THEN 2 * Exp2(y - Scale)
    ELSE IF y < 0 THEN Exp2(y + Scale) \div 2
    ELSE Exp2Frac(y, 1)

\* math.pow(x, e) for x >= 0 and e > 0.
Pow(x, e) ==
    IF IsNaN(x) THEN NaN
    ELSE IF e % Scale = 0 THEN PowInt(x, e \div Scale)
    ELSE IF x = 0 THEN 0
    ELSE Exp2(Mul(e, Log2(x)))

\* round(x, k): to k decimals, halves to the even neighbour.
Round(x, k) ==
    IF IsNaN(x) THEN NaN
    ELSE LET unit == Scale \div (10 ^ k)
             q == Abs(x) \div unit
             r == Abs(x) % unit
             up == (2 * r > unit) \/ (2 * r = unit /\ q % 2 = 1)
         IN  Sgn(x) * (IF up THEN q + 1 ELSE q) * unit

\* ------------------------------------------------------------- inputs

\* Bounds of the model: the loops of a network and the iteration budgets tried.
MaxLoops == 2
MaxIter == 3

LoopNames == << "Loop A", "Loop B", "Loop C", "Loop D" >>
OwnPipes == << "A-B", "B-C", "C-E", "E-F" >>
SharedPipe == "B-D"

Columns == { "pipe", "length", "diameter", "f", "C", "K", "Qa" }

\* Hydraulic parameters of a pipe row: ordinary, without resistance, a longer
\* and narrower pipe, and a row with a negative coefficient.
Params ==
    << [ length |-> Lit(10, 0), diameter |-> Lit(1, 0), f |-> Lit(5, 1),
         C |-> Lit(10, 0), K |-> Lit(1, 0) ],
       [ length |-> 0, diameter |-> Lit(1, 0), f |-> 0,
         C |-> Lit(10, 0), K |-> 0 ],
       [ length |-> Lit(20, 0), diameter |-> Lit(8, 1), f |-> Lit(5, 1),
         C |-> Lit(10, 0), K |-> Lit(3, 0) ],
       [ length |-> Lit(10, 0), diameter |-> Lit(1, 0), f |-> -Lit(5, 1),
         C |-> Lit(10, 0), K |-> -Lit(1, 0) ] >>

\* The parameters of the own pipes and of B-D, as indices of Params.
Profiles == { << 1, 1 >>, << 3, 1 >>, << 2, 1 >>, << 2, 2 >>, << 4, 1 >> }

QaOwn == { -Lit(1, 0), 0, -Lit(4, 3) }
QaShared == { -Lit(1, 0), 0, Lit(1, 0), Lit(4, 3) }
Errors == { Lit(1, 4), Lit(1, 1) }

Row(name, p, qa) ==
    [ pipe |-> name, length |-> p.length, diameter |-> p.diameter, f |-> p.f,
      C |-> p.C, K |-> p.K, Qa |-> qa, Qnew |-> 0, hl |-> 0, hlQ |-> 0 ]

\* Loop k of a network: its own pipe and the pipe B-D that every loop holds,
\* B-D first in the even loops.  cols is the header row, as a set.
MkLoop(k, cols, po, ps, qo, qs) ==
    [ name |-> LoopNames[k], cols |-> cols,
      rows |-> IF k % 2 = 1
               THEN << Row(OwnPipes[k], Params[po], qo), Row(SharedPipe, Params[ps], qs) >>
               ELSE << Row(SharedPipe, Params[ps], qs), Row(OwnPipes[k], Params[po], qo) >> ]

\* The shared-pipe declarations tried (None and [] are both the empty list:
\* the code treats them alike).
Declarations ==
    { << >>,
      << [ name |-> SharedPipe, loops |-> << "Loop A", "Loop B" >> ] >>,
      << [ name |-> "A-B", loops |-> << "Loop B" >> ],
         [ name |-> SharedPipe, loops |-> << "Loop B", "Loop Z", "Loop A" >> ] >> }

\* The header rows tried: complete, or with one or two columns left out.
Headers ==
    { Columns \ m : m \in { {}, {"pipe"}, {"Qa"}, {"length"}, {"diameter"},
                            {"f"}, {"C"}, {"K"}, {"pipe", "Qa"}, {"f", "C", "K"} } }

\* -------------------------------------------------------------- state

VARIABLES
    loops,                  \* argument: the loops, each a header and its rows
    equation,               \* argument: 'darcy' or 'hazen'
    pipes_in_common_loops,  \* argument: the shared-pipe declarations
    K,                      \* argument: True for the lumped coefficient K
    error,                  \* argument: the tolerance
    max_iter,               \* argument: the iteration budget
    df_list,                \* the validated loops, their flows and head losses
    q_list,                 \* the corrections computed in this iteration
    iterations,             \* the iteration counter (0 before the first one)
    results,                \* False once the budget is exhausted
    pc,                     \* the position in pipe_network
    i,                      \* the index of the running for loop
    ret,                    \* what the call returned or raised
    Qstart,                 \* history: every flow as the iteration began
    unconverged             \* history: the convergence checks that failed

vars == << loops, equation, pipes_in_common_loops, K, error, max_iter, df_list,
           q_list, iterations, results, pc, i, ret, Qstart, unconverged >>

args == << loops, equation, pipes_in_common_loops, K, error, max_iter >>

NoRet == [ kind |-> "none", val |-> << >> ]
Raise(kind, what) == [ kind |-> kind, val |-> what ]

\* The flows of every loop, loop by loop and row by row.
Flows(dfs) == [ j \in 1..Len(dfs) |-> [ r \in 1..Len(dfs[j].rows) |-> dfs[j].rows[r].Qnew ] ]

Start ==
    /\ df_list = << >>
    /\ q_list = << >>
    /\ iterations = 0
    /\ results = TRUE
    /\ pc = "start"
    /\ i = 1
    /\ ret = NoRet
    /\ Qstart = << >>
    /\ unconverged = 0

\* Calls that exercise the validation: any equation, any mode, one loop with
\* a column or two left out of its header.
InitValidation ==
    /\ equation \in { "darcy", "hazen", "manning" }
    /\ K \in BOOLEAN
    /\ pipes_in_common_loops = << >>
    /\ error \in Errors
    /\ max_iter = 1
    /\ \E n \in 1..MaxLoops, bad \in 1..MaxLoops, hdr \in Headers :
          /\ bad <= n
          /\ loops = [ k \in 1..n |->
                         MkLoop(k, IF k = bad THEN hdr ELSE Columns, 1, 1,
                                Lit(2, 0), IF k = 1 THEN Lit(1, 0) ELSE -Lit(1, 0)) ]
    /\ Start

\* Calls with complete headers: the flows, the coefficients, the
\* declarations, the tolerance and the budget vary.
InitNetwork ==
    /\ equation \in { "darcy", "hazen" }
    /\ K \in BOOLEAN
    /\ pipes_in_common_loops \in Declarations
    /\ error \in Errors
    /\ max_iter \in 0..MaxIter
    /\ error = Lit(1, 1) => max_iter = MaxIter
    /\ \E n \in 1..MaxLoops, p \in Profiles, qo \in QaOwn, qs \in QaShared,
          mirror \in BOOLEAN :
          /\ n = 1 => mirror
          /\ loops = [ k \in 1..n |->
                         MkLoop(k, Columns, p[1], p[2],
                                IF k % 2 = 1 THEN qo ELSE -qo,
                                IF k = 1 \/ ~mirror THEN qs ELSE -qs) ]
    /\ Start

Init == InitValidation \/ InitNetwork

\* ------------------------------------------------------------- helpers

\* n = 2 if equation == 'darcy' else 1.85
n == IF equation = "darcy" THEN Lit(2, 0) ELSE Lit(185, 2)

\* A head_loss that forgets the direction of the flow.
head_loss_unsigned(a, b, c, d) ==
    Mul(Pow(FAbs(d), n),
        IF ~K /\ equation = "darcy"
        THEN Div(Mul(Mul(Lit(8, 0), a), c),
                 Mul(Mul(Lit(981, 2), Pow(Lit(3143, 3), Lit(2, 0))), Pow(b, Lit(5, 0))))
        ELSE IF ~K /\ equation = "hazen"
        THEN Div(Mul(Lit(1067, 2), a), Mul(Pow(c, n), Pow(b, Lit(487, 2))))
        ELSE c)

\* head_loss(a, b, c, d): a=length, b=diameter, c=f/C/K, d=assumed rate.
head_loss(a, b, c, d) ==
    LET hl == Pow(FAbs(d), n)
        res == IF ~K /\ equation = "darcy"
               THEN LET const_A == Mul(Mul(Lit(8, 0), a), c)
                        const_B == Mul(Mul(Lit(981, 2), Pow(Lit(3143, 3), Lit(2, 0))),
                                       Pow(b, Lit(5, 0)))
                    IN  Mul(hl, Div(const_A, const_B))
               ELSE IF ~K /\ equation = "hazen"
               THEN LET const_A == Mul(Lit(1067, 2), a)
                        const_B == Mul(Pow(c, n), Pow(b, Lit(487, 2)))
                    IN  Mul(hl, Div(const_A, const_B))
               ELSE Mul(hl, c)
    IN  IF Greater(d, 0) THEN res ELSE Neg(res)

\* The head loss of a row, with the arguments the mode selects.
RowHeadLoss(row) ==
    IF ~K /\ equation = "darcy"
    THEN head_loss(row.length, row.diameter, row.f, row.Qnew)
    ELSE IF ~K /\ equation = "hazen"
    THEN head_loss(row.length, row.diameter, row.C, row.Qnew)
    ELSE head_loss(Lit(1, 0), Lit(1, 0), row.K, row.Qnew)

\* An element of df['hl'] / df['Qnew']: pandas gives NaN for 0/0 and raises
\* nothing.  (hl is 0 whenever Qnew is, so no infinity arises.)
SeriesDiv(x, y) ==
    IF IsNaN(x) \/ IsNaN(y) \/ y = 0 THEN NaN ELSE Div(x, y)

\* sum(column) over the rows r..Len(rows).
RECURSIVE SumFrom(_, _, _)
SumFrom(rows, col, r) ==
    IF r > Len(rows) THEN 0 ELSE Add(rows[r][col], SumFrom(rows, col, r + 1))

\* The rows of a loop with hl and hl/Qnew computed from Qnew.
WithHeadLoss(rows) ==
    [ r \in 1..Len(rows) |->
        LET h == RowHeadLoss(rows[r])
        IN  [ rows[r] EXCEPT !.hl = h, !.hlQ = FAbs(SeriesDiv(h, rows[r].Qnew)) ] ]

\* A message that reports the iteration counter instead of max_iter.
NoConvergenceCounted(m) ==
    << "No convergence after ", iterations,
       " iterations. You can increase the number of iterations by modifying the 'max_iter' parameter in the function argument" >>

\* A message of the call that ran out of iterations.
NoConvergence(m) ==
    << "No convergence after ", m,
       " iterations. You can increase the number of iterations by modifying the 'max_iter' parameter in the function argument" >>

\* ------------------------------------------------------------ actions

\* Lines 98-102: the equation must be 'darcy' or 'hazen'.
CheckEquation ==
    /\ pc = "start"
    /\ IF equation \notin { "darcy", "hazen" }
       THEN /\ ret' = Raise("ValueError", "equation")
            /\ pc' = "done"
       ELSE /\ pc' = "validate"
            /\ UNCHANGED ret
    /\ UNCHANGED << args, df_list, q_list, iterations, results, i, Qstart, unconverged >>

\* What lines 109-132 raise for a header, or "none".
ValidationError(cols) ==
    IF "Qa" \notin cols THEN Raise("KeyError", "Qa")
    ELSE IF "pipe" \notin cols THEN Raise("ValueError", "pipe")
    ELSE IF "Qa" \notin cols THEN Raise("ValueError", "Qa")
    ELSE IF ~K
    THEN IF "length" \notin cols THEN Raise("ValueError", "length")
         ELSE IF "diameter" \notin cols THEN Raise("ValueError", "diameter")
         ELSE IF equation = "darcy" /\ "f" \notin cols THEN Raise("ValueError", "f")
         ELSE IF equation = "hazen" /\ "C" \notin cols THEN Raise("ValueError", "C")
         ELSE NoRet
    ELSE IF "K" \notin cols THEN Raise("ValueError", "K")
         ELSE NoRet

\* Lines 105-143: one loop of the input is validated and, with Qnew = Qa,
\* appended to df_list; after the last one the iteration counter is set.
Validate ==
    /\ pc = "validate"
    /\ LET lp == loops[i]
           err == ValidationError(lp.cols)
       IN  IF err.kind # "none"
           THEN /\ ret' = err
                /\ pc' = "done"
                /\ UNCHANGED << df_list, i, iterations, Qstart >>
           ELSE /\ df_list' = Append(df_list,
                        [ name |-> lp.name,
                          rows |-> [ r \in 1..Len(lp.rows) |->
                                       [ lp.rows[r] EXCEPT !.Qnew = lp.rows[r].Qa ] ] ])
                /\ IF i < Len(loops)
                   THEN /\ i' = i + 1
                        /\ UNCHANGED << pc, iterations, Qstart >>
                   ELSE /\ i' = 1
                        /\ pc' = "head"
                        /\ iterations' = 1
                        /\ Qstart' = Flows(df_list')
                /\ UNCHANGED ret
    /\ UNCHANGED << args, q_list, results, unconverged >>

\* 1.85*hl_Qnew_sum, the divisor of line 183.
Divisor(rows) == Mul(Lit(185, 2), SumFrom(rows, "hlQ", 1))

\* q = -hl_sum/(1.85*hl_Qnew_sum) of rows whose hl and hl/Qnew are computed.
Correction(rows) == Div(Neg(SumFrom(rows, "hl", 1)), Divisor(rows))

\* A HeadLoss that corrects the flows of loop i as soon as its q is known.
HeadLossEager ==
    /\ pc = "head"
    /\ LET rows == WithHeadLoss(df_list[i].rows)
       IN  IF Divisor(rows) = 0
           THEN /\ df_list' = [ df_list EXCEPT ![i].rows = rows ]
                /\ ret' = Raise("ZeroDivisionError", df_list[i].name)
                /\ pc' = "done"
                /\ UNCHANGED << q_list, i >>
           ELSE /\ df_list' = [ df_list EXCEPT ![i].rows =
                                  [ r \in 1..Len(rows) |->
                                      [ rows[r] EXCEPT !.Qnew = Add(@, Correction(rows)) ] ] ]
                /\ q_list' = Append(q_list,
                        [ name |-> df_list[i].name, q |-> Correction(rows) ])
                /\ IF i < Len(df_list)
                   THEN i' = i + 1 /\ UNCHANGED pc
                   ELSE i' = 1 /\ pc' = "check"
                /\ UNCHANGED ret
    /\ UNCHANGED << args, iterations, results, Qstart, unconverged >>

\* Lines 167-184: the head losses, their sums and the correction of loop i.
\* Dividing by a sum of exactly zero raises ZeroDivisionError.
HeadLoss ==
    /\ pc = "head"
    /\ df_list' = [ df_list EXCEPT ![i].rows = WithHeadLoss(@) ]
    /\ IF Divisor(df_list'[i].rows) = 0
       THEN /\ ret' = Raise("ZeroDivisionError", df_list[i].name)
            /\ pc' = "done"
            /\ UNCHANGED << q_list, i >>
       ELSE /\ q_list' = Append(q_list,
                    [ name |-> df_list[i].name, q |-> Correction(df_list'[i].rows) ])
            /\ IF i < Len(df_list)
               THEN i' = i + 1 /\ UNCHANGED pc
               ELSE i' = 1 /\ pc' = "check"
            /\ UNCHANGED ret
    /\ UNCHANGED << args, iterations, results, Qstart, unconverged >>

\* The declaration correct_rate uses for a pipe: the last one of that name.
RECURSIVE LastDeclaration(_, _)
LastDeclaration(pipe, k) ==
    IF k = 0 THEN << >>
    ELSE IF pipes_in_common_loops[k].name = pipe THEN << pipes_in_common_loops[k] >>
    ELSE LastDeclaration(pipe, k - 1)

\* Qnew less every q of q_list[j..] whose loop is named loop_name.
RECURSIVE SubtractNamed(_, _, _)
SubtractNamed(Qnew, loop_name, j) ==
    IF j > Len(q_list) THEN Qnew
    ELSE SubtractNamed(IF q_list[j].name = loop_name THEN Sub(Qnew, q_list[j].q) ELSE Qnew,
                       loop_name, j + 1)

\* Qnew less the corrections of the loops names[k..] other than own.
RECURSIVE SubtractOthers(_, _, _, _)
SubtractOthers(Qnew, names, own, k) ==
    IF k > Len(names) THEN Qnew
    ELSE SubtractOthers(IF names[k] # own THEN SubtractNamed(Qnew, names[k], 1) ELSE Qnew,
                        names, own, k + 1)

\* A correct_rate that applies the correction of the own loop alone.
correct_rate_own(row, df, df_q) == Add(row.Qnew, df_q)

\* correct_rate(row, df, df_q), lines 191-212.
correct_rate(row, df, df_q) ==
    LET Qnew == Add(row.Qnew, df_q)
        common_p == LastDeclaration(row.pipe, Len(pipes_in_common_loops))
    IN  IF common_p # << >>
        THEN SubtractOthers(Qnew, common_p[1].loops, df.name, 1)
        ELSE Qnew

\* df['Qnew'] = df.apply(correct_rate) of one loop, line 223.
Corrected(df, df_q) ==
    [ df EXCEPT !.rows = [ r \in 1..Len(df.rows) |->
                             [ df.rows[r] EXCEPT !.Qnew = correct_rate(df.rows[r], df, df_q) ] ] ]

\* Lines 222-223: the flows of loop i are corrected.
Update ==
    /\ pc = "update"
    /\ df_list' = [ df_list EXCEPT ![i] = Corrected(df_list[i], q_list[i].q) ]
    /\ IF i < Len(df_list)
       THEN i' = i + 1 /\ UNCHANGED pc
       ELSE i' = 1 /\ pc' = "budget"
    /\ UNCHANGED << args, q_list, iterations, results, ret, Qstart, unconverged >>

\* all(abs(item) < error for item in df_q_list)
Converged(qs) == \A j \in 1..Len(qs) : Less(FAbs(qs[j].q), error)

\* A Check that has the flows corrected before it looks at the corrections.
CheckAfterUpdate ==
    /\ pc = "check"
    /\ IF Converged(q_list)
       THEN /\ pc' = "format"
            /\ df_list' = [ j \in 1..Len(df_list) |-> Corrected(df_list[j], q_list[j].q) ]
            /\ UNCHANGED unconverged
       ELSE /\ pc' = "update"
            /\ unconverged' = unconverged + 1
            /\ UNCHANGED df_list
    /\ UNCHANGED << args, q_list, iterations, results, i, ret, Qstart >>

\* Lines 214-220: leave the loop when every correction is below the tolerance.
Check ==
    /\ pc = "check"
    /\ IF Converged(q_list)
       THEN pc' = "format" /\ UNCHANGED unconverged
       ELSE pc' = "update" /\ unconverged' = unconverged + 1
    /\ UNCHANGED << args, df_list, q_list, iterations, results, i, ret, Qstart >>

\* A budget test that lets one iteration too many through.
BudgetOffByOne == iterations > max_iter

\* iterations >= max_iter
BudgetExhausted == iterations >= max_iter

\* Lines 225-229 and 146: stop when the budget is used up, else count the
\* iteration and begin the next one with an empty q_list.
Budget ==
    /\ pc = "budget"
    /\ IF BudgetExhausted
       THEN /\ results' = FALSE
            /\ pc' = "format"
            /\ UNCHANGED << iterations, q_list, Qstart >>
       ELSE /\ iterations' = iterations + 1
            /\ q_list' = << >>
            /\ Qstart' = Flows(df_list)
            /\ pc' = "head"
            /\ UNCHANGED results
    /\ UNCHANGED << args, df_list, i, ret, unconverged >>

\* Lines 232-239: Qnew, hl and hl/Qnew of every row rounded to 4 decimals,
\* and the rows kept under 'props'.
Rounded(dfs) ==
    [ j \in 1..Len(dfs) |->
        [ name |-> dfs[j].name,
          props |-> [ r \in 1..Len(dfs[j].rows) |->
                        [ dfs[j].rows[r] EXCEPT !.Qnew = Round(@, 4),
                                                !.hl = Round(@, 4),
                                                !.hlQ = Round(@, 4) ] ] ] ]

\* A result that is the table whether or not the corrections converged.
ResultAlwaysTable(ok, dfs) == [ kind |-> "list", val |-> Rounded(dfs) ]

\* What pipe_network returns, lines 231-243: df_list, its loops rounded in
\* place, or the message.
Result(ok, dfs) ==
    IF ok THEN [ kind |-> "list", val |-> Rounded(dfs) ]
    ELSE [ kind |-> "str", val |-> NoConvergence(max_iter) ]

\* Lines 231-243.
Format ==
    /\ pc = "format"
    /\ ret' = Result(results, df_list)
    /\ df_list' = IF ret'.kind = "list" THEN ret'.val ELSE df_list
    /\ pc' = "done"
    /\ UNCHANGED << args, q_list, iterations, results, i, Qstart, unconverged >>

Next == CheckEquation \/ Validate \/ HeadLoss \/ Check \/ Update \/ Budget \/ Format

Spec == Init /\ [][Next]_vars

\* ------------------------------------------------------------- claims

Range(seq) == { seq[k] : k \in 1..Len(seq) }

\* The rows of an entry of df_list, before and after the formatting.
RowsOf(df) == IF "rows" \in DOMAIN df THEN df.rows ELSE df.props

\* An iteration ran its convergence check on corrections that are numbers.
AllNumbers(qs) == \A j \in 1..Len(qs) : ~IsNaN(qs[j].q)

\* C1: when the convergence check failed in each of the iterations
\* 1..max_iter (max_iter >= 1), the call returns the non-convergence
\* outcome; and a table is returned only after a check that every loop's
\* |correction| passed.
C1_NoUnconvergedTable ==
    pc = "done" =>
        /\ (max_iter >= 1 /\ unconverged >= max_iter) => ret.kind = "str"
        /\ ret.kind = "list" =>
              /\ Len(q_list) = Len(df_list)
              /\ \A j \in 1..Len(q_list) : Less(FAbs(q_list[j].q), error)
              /\ unconverged < iterations

C1_Witness ==
    /\ pc = "done"
    /\ max_iter >= 2
    /\ unconverged = max_iter
    /\ AllNumbers(q_list)
    /\ ret.kind = "str"

\* C2 as claimed: the non-convergence outcome is a tagged result that is no
\* string and that carries the iteration count reached and the loop data's
\* last iterated state.
C2_TaggedOutcome ==
    (pc = "done" /\ ~results) =>
        /\ ret.kind \notin { "str", "list" }
        /\ ret.val = << iterations, df_list >>

\* C2 as amended: the non-convergence outcome is a string, the success
\* outcome a list; the string is the fixed message around max_iter, which
\* is the iteration count reached when max_iter >= 1, and it carries
\* nothing of the loop data.
C2_MessageOutcome ==
    pc = "done" =>
        /\ ~results =>
              /\ ret.kind = "str"
              /\ Len(ret.val) = 3
              /\ ret.val[1] = "No convergence after "
              /\ ret.val[2] = max_iter
              /\ max_iter >= 1 => ret.val[2] = iterations
        /\ (results /\ iterations >= 1 /\ ret.kind # "ZeroDivisionError") =>
              ret.kind = "list"

C2_Witness ==
    /\ pc = "done"
    /\ ~results
    /\ ret.kind = "str"
    /\ iterations >= 2
    /\ Len(df_list) >= 2

\* C3: a table is returned only when every loop's |correction| of the last
\* iteration run was strictly below error, and its correctedFlow, headLoss
\* and headLoss/flow are the roundings of the flow that iteration began
\* with, of the head loss of that flow and of their quotient: no flow is
\* updated after the check passed.
C3_TableOfCheckedFlows ==
    (pc = "done" /\ ret.kind = "list") =>
        /\ Len(q_list) = Len(ret.val)
        /\ \A j \in 1..Len(q_list) : Less(FAbs(q_list[j].q), error)
        /\ \A j \in 1..Len(ret.val) : \A r \in 1..Len(ret.val[j].props) :
              LET row == ret.val[j].props[r]
                  Q == Qstart[j][r]
                  h == RowHeadLoss([ row EXCEPT !.Qnew = Q ])
              IN  /\ row.Qnew = Round(Q, 4)
                  /\ row.hl = Round(h, 4)
                  /\ row.hlQ = Round(FAbs(SeriesDiv(h, Q)), 4)

C3_Witness ==
    /\ pc = "done"
    /\ ret.kind = "list"
    /\ iterations >= 2
    /\ \E j \in 1..Len(q_list) : q_list[j].q # 0
    /\ \E j \in 1..Len(ret.val) : \E r \in 1..Len(ret.val[j].props) :
          Qstart[j][r] # ret.val[j].props[r].Qnew

\* The correction of the loop of that name (0 when no loop has it).
QOf(name) ==
    LET js == { j \in 1..Len(q_list) : q_list[j].name = name }
    IN  IF js = {} THEN 0 ELSE q_list[CHOOSE j \in js : TRUE].q

RECURSIVE SumQ(_)
SumQ(names) ==
    IF names = {} THEN 0
    ELSE LET x == CHOOSE x \in names : TRUE
         IN  Add(QOf(x), SumQ(names \ { x }))

\* The loop set of the declaration of a pipe (empty for an undeclared pipe).
DeclaredLoops(pipe) ==
    UNION { Range(d.loops) : d \in { e \in Range(pipes_in_common_loops) : e.name = pipe } }

C5_SharedViewsOpposite ==
    pc \in { "head", "check", "budget", "format", "done" } =>
        \A d \in Range(pipes_in_common_loops) :
            (Len(d.loops) = 2 /\ d.loops[1] # d.loops[2]) =>
                \A a \in 1..Len(df_list), b \in 1..Len(df_list) :
                    (df_list[a].name = d.loops[1] /\ df_list[b].name = d.loops[2]) =>
                        \A ra \in 1..Len(RowsOf(df_list[a])), rb \in 1..Len(RowsOf(df_list[b])) :
                            LET x == RowsOf(df_list[a])[ra]
                                y == RowsOf(df_list[b])[rb]
                            IN  (/\ x.pipe = d.name
                                 /\ y.pipe = d.name
                                 /\ x.Qa # 0
                                 /\ x.Qa = -y.Qa) =>
                                    /\ ~IsNaN(x.Qnew)
                                    /\ ~IsNaN(y.Qnew)
                                    /\ x.Qnew = -y.Qnew

\* Whether the factor that head_loss multiplies |Q|^n with is positive.
Resistive(row) ==
    IF K THEN row.K > 0
    ELSE IF equation = "darcy" THEN row.length > 0 /\ row.f > 0 /\ row.diameter > 0
    ELSE row.length > 0 /\ row.C > 0 /\ row.diameter > 0

\* C6 as claimed: in every converged result the sign of every pipe's
\* headLoss equals the sign of its correctedFlow, both positive or both
\* negative.
C6_SameSign ==
    (pc = "done" /\ ret.kind = "list") =>
        \A j \in 1..Len(ret.val) : \A r \in 1..Len(ret.val[j].props) :
            Sgn(ret.val[j].props[r].hl) * Sgn(ret.val[j].props[r].Qnew) = 1

\* C6 as amended: for every pipe with a positive resistance factor, the head
\* loss and the flow of a converged solve have the same sign before the
\* rounding (and neither is zero), and the rounded headLoss and
\* correctedFlow never have opposite signs.
C6_SameSignIfResistive ==
    /\ (pc = "format" /\ results) =>
          \A j \in 1..Len(df_list) : \A r \in 1..Len(df_list[j].rows) :
              LET row == df_list[j].rows[r]
              IN  Resistive(row) => Sgn(row.hl) * Sgn(row.Qnew) = 1
    /\ (pc = "done" /\ ret.kind = "list") =>
          \A j \in 1..Len(ret.val) : \A r \in 1..Len(ret.val[j].props) :
              LET row == ret.val[j].props[r]
              IN  Resistive(row) => Sgn(row.hl) * Sgn(row.Qnew) >= 0

C6_Witness ==
    /\ pc = "done"
    /\ ret.kind = "list"
    /\ \E j \in 1..Len(ret.val) : \E r \in 1..Len(ret.val[j].props) :
          LET row == ret.val[j].props[r]
          IN  Resistive(row) /\ row.hl = 0 /\ row.Qnew < 0
    /\ \E j \in 1..Len(ret.val) : \E r \in 1..Len(ret.val[j].props) :
          LET row == ret.val[j].props[r]
          IN  Resistive(row) /\ row.hl < 0 /\ row.Qnew < 0

\* C7 as claimed: no correction is computed for a loop that holds a pipe of
\* flow exactly zero (the call aborts there), and no NaN ever enters the
\* corrections of a call.
C7_ZeroFlowAborts ==
    /\ pc \in { "head", "check" } =>
          \A j \in 1..Len(q_list) : \A r \in 1..Len(df_list[j].rows) :
              df_list[j].rows[r].Qnew # 0
    /\ AllNumbers(q_list)

\* The columns the mode requires, and those a header lacks.
Required ==
    { "pipe", "Qa" } \cup
    (IF K THEN { "K" }
     ELSE { "length", "diameter" } \cup (IF equation = "darcy" THEN { "f" } ELSE { "C" }))

Missing(lp) == Required \ lp.cols

\* C8 as claimed: when a loop lacks a required column, the call fails with
\* the one MissingField kind of error (ValueError), naming a column that is
\* absent, before the first iteration.
C8_MissingFieldError ==
    (/\ pc = "done"
     /\ equation \in { "darcy", "hazen" }
     /\ \E k \in 1..Len(loops) : Missing(loops[k]) # {}) =>
        /\ ret.kind = "ValueError"
        /\ \E k \in 1..Len(loops) : ret.val \in Missing(loops[k])
        /\ iterations = 0

\* The steps of one iteration: a head-loss and an update step per loop, the
\* convergence check and the budget test.
IterationSteps == 2 * Len(loops) + 2

\* The steps a call has left at most, from the budget test of iteration k.
StepsFromBudget(k) ==
    2 + ((IF max_iter >= 1 THEN max_iter ELSE 1) - k) * IterationSteps

\* The steps a call has left at most: a variant of the iteration.
StepsLeft ==
    CASE pc = "done" -> 0
      [] pc = "format" -> 1
      [] pc = "budget" -> StepsFromBudget(iterations)
      [] pc = "update" -> (Len(loops) - i + 1) + StepsFromBudget(iterations)
      [] pc = "check" -> 1 + Len(loops) + StepsFromBudget(iterations)
      [] pc = "head" -> (Len(loops) - i + 1) + 1 + Len(loops) + StepsFromBudget(iterations)
      [] pc = "validate" -> (Len(loops) - i + 1) + IterationSteps + StepsFromBudget(1)
      [] pc = "start" -> 1 + Len(loops) + IterationSteps + StepsFromBudget(1)

\* A step can be taken.  (HeadLoss has no guard but its place and is total
\* on a loop of df_list.)
CanStep == IF pc = "head" THEN i \in 1..Len(df_list) ELSE ENABLED Next

\* C9: every call ends: a call that has not returned or raised can take a
\* step, and every step lowers StepsLeft, which is never negative; and with
\* max_iter >= 1 the iteration counter never passes max_iter.
C9_Terminates ==
    /\ [](/\ StepsLeft >= 0
          /\ pc # "done" => CanStep
          /\ max_iter >= 1 => iterations <= max_iter)
    /\ [][StepsLeft' < StepsLeft]_vars

C9_Witness ==
    /\ pc = "done"
    /\ ret.kind = "str"
    /\ max_iter >= 2
    /\ iterations = max_iter
    /\ AllNumbers(q_list)

\* C10: while the corrections of an iteration are computed and checked,
\* every flow is the one the iteration began with, and the correction of
\* every loop is the correction of that loop's own flows at the start of
\* the iteration, whatever the place of the loop in the list.
C10_CorrectionsOfStartFlows ==
    pc \in { "head", "check" } =>
        /\ Flows(df_list) = Qstart
        /\ \A j \in 1..Len(q_list) :
              q_list[j].q =
                  Correction(WithHeadLoss(
                      [ r \in 1..Len(df_list[j].rows) |->
                          [ df_list[j].rows[r] EXCEPT !.Qnew = Qstart[j][r] ] ]))

C10_Witness ==
    /\ pc = "check"
    /\ iterations >= 2
    /\ Len(q_list) = 2
    /\ pipes_in_common_loops # << >>
    /\ AllNumbers(q_list)
    /\ q_list[1].q # 0 /\ q_list[2].q # 0

=============================================================================
